---- MODULE Spec2Model ----
(***************************************************************************)
(* agi::charset::Detect (libaegisub/common/charset.cpp) as a state         *)
(* machine.  A call owns a read-only file mapping fp (its size and its     *)
(* bytes) and the locals of Detect; one action per block of the function.  *)
(* Bytes are the integers 0..255.  A file's bytes are fixed but become     *)
(* known to the model only when the code first reads them: `file` is the   *)
(* prefix read so far, and a byte once read never changes.                 *)
(***************************************************************************)
EXTENDS Integers, Sequences, FiniteSets, TLC

(* Bounds.  WindowSize stands for the scan window of 4096 bytes            *)
(* (charset.cpp:57,107) and SizeLimit for the 100 * 1024 * 1024 byte cap   *)
(* (charset.cpp:47), both scaled down so that files of several windows and *)
(* files over the cap are enumerable.                                      *)
WindowSize == 3
SizeLimit == 8

(* The longest file of a run of two calls.                                 *)
TwoSize == 4

(* The calls of Detect the model runs: each has its own mapping and locals. *)
Calls == {1, 2}

VARIABLES
    with_uchardet,    \* the build: TRUE when compiled WITH_UCHARDET
    size,             \* size[c]: fp.size()
    file,             \* file[c]: the bytes of fp read so far, from offset 0
    pc,               \* pc[c]: the block of Detect the call is at
    reads,            \* reads[c]: the fp.read(offset, length) calls made, in order
    buf,              \* buf[c]: the offset in fp the pointer buf points at
    read,             \* read[c]: length of the current window
    offset,           \* offset[c]
    i,                \* i[c]: index of the byte loop
    binaryish,        \* binaryish[c]
    utf8_errors,      \* utf8_errors[c]
    utf8_cont_bytes,  \* utf8_cont_bytes[c]
    ud,               \* ud[c]: the uchardet handle: what it was fed, whether ended
    result            \* result[c]: the value Detect returned, NoResult before

vars == <<with_uchardet, size, file, pc, reads, buf, read, offset, i,
          binaryish, utf8_errors, utf8_cont_bytes, ud, result>>

Min(a, b) == IF a < b THEN a ELSE b

--------------------------------------------------------------------------
(* Return values.  A fixed label is a string of the code; the label of     *)
(* uchardet_get_charset is an unknown function of the bytes the handle was *)
(* fed, kept as those bytes.                                               *)
NoResult == [label |-> "", guess |-> <<>>]
Label(s) == [label |-> s, guess |-> <<>>]
Guess(bytes) == [label |-> "uchardet_get_charset", guess |-> bytes]

(* The string literals of the signature check, as the arrays C makes of    *)
(* them: the bytes written, then the terminating NUL.                      *)
LitUtf8 == <<239, 187, 191, 0>>
LitUtf32be == <<0, 0, 254, 255, 0>>
LitUtf32le == <<255, 254, 0, 0, 0>>
LitUtf16be == <<254, 255, 0>>
LitUtf16le == <<255, 254, 0>>
LitEbml == <<26, 69, 223, 163, 0>>

(* strncmp(s1, s2, n): compares at most n bytes as unsigned char, and      *)
(* stops with 0 after a NUL that both strings hold at the same index.      *)
RECURSIVE StrncmpFrom(_, _, _, _)
StrncmpFrom(s1, s2, n, k) ==
    IF k > n THEN 0
    ELSE IF s1[k] # s2[k] THEN s1[k] - s2[k]
    ELSE IF s1[k] = 0 THEN 0
    ELSE StrncmpFrom(s1, s2, n, k + 1)

strncmp(s1, s2, n) == StrncmpFrom(s1, s2, n, 1)

(* Signature with the first test comparing 4 bytes, not 3.                 *)
Signature_Bom4(header) ==
    IF strncmp(header, LitUtf8, 4) = 0 THEN "utf-8"
    ELSE IF strncmp(header, LitUtf32be, 4) = 0 THEN "utf-32be"
    ELSE IF strncmp(header, LitUtf32le, 4) = 0 THEN "utf-32le"
    ELSE IF strncmp(header, LitUtf16be, 2) = 0 THEN "utf-16be"
    ELSE IF strncmp(header, LitUtf16le, 2) = 0 THEN "utf-16le"
    ELSE IF strncmp(header, LitEbml, 4) = 0 THEN "binary"
    ELSE ""

(* Signature with the 2-byte tests ahead of the 4-byte ones.               *)
Signature_Utf16First(header) ==
    IF strncmp(header, LitUtf8, 3) = 0 THEN "utf-8"
    ELSE IF strncmp(header, LitUtf16be, 2) = 0 THEN "utf-16be"
    ELSE IF strncmp(header, LitUtf16le, 2) = 0 THEN "utf-16le"
    ELSE IF strncmp(header, LitUtf32be, 4) = 0 THEN "utf-32be"
    ELSE IF strncmp(header, LitUtf32le, 4) = 0 THEN "utf-32le"
    ELSE IF strncmp(header, LitEbml, 4) = 0 THEN "binary"
    ELSE ""

(* The chain of tests on the 4-byte header; "" when none returns.          *)
Signature(header) ==
    IF strncmp(header, LitUtf8, 3) = 0 THEN "utf-8"
    ELSE IF strncmp(header, LitUtf32be, 4) = 0 THEN "utf-32be"
    ELSE IF strncmp(header, LitUtf32le, 4) = 0 THEN "utf-32le"
    ELSE IF strncmp(header, LitUtf16be, 2) = 0 THEN "utf-16be"
    ELSE IF strncmp(header, LitUtf16le, 2) = 0 THEN "utf-16le"
    ELSE IF strncmp(header, LitEbml, 4) = 0 THEN "binary"
    ELSE ""

(* std::countl_one on an unsigned char: the number of leading one bits.    *)
RECURSIVE countl_one(_)
countl_one(b) == IF b >= 128 THEN 1 + countl_one((2 * b) % 256) ELSE 0

(* IsBinaryish without the test for \n.                                    *)
IsBinaryish_NoLf(b) == b < 32 /\ (b # 13 /\ b # 9)

(* The "dumb heuristic": below 32 and none of \r, \n, \t.                  *)
IsBinaryish(b) == b < 32 /\ (b # 13 /\ b # 10 /\ b # 9)

(* Utf8Step with a lead byte expecting as many continuation bytes as it    *)
(* has leading ones.                                                       *)
Utf8Step_OffByOne(cont, errors, b) ==
    LET l_ones == countl_one(b) IN
    IF cont # 0 /\ l_ones = 1
    THEN [cont |-> cont - 1, errors |-> errors]
    ELSE LET e1 == IF cont # 0 THEN errors + 1 ELSE errors IN
         IF l_ones > 4 THEN [cont |-> 0, errors |-> e1 + 1]
         ELSE IF l_ones > 1 THEN [cont |-> l_ones, errors |-> e1]
         ELSE IF l_ones = 1 THEN [cont |-> 0, errors |-> e1 + 1]
         ELSE [cont |-> 0, errors |-> e1]

(* Utf8Step with the byte that interrupts a sequence taken up by the error *)
(* and not looked at again.                                                *)
Utf8Step_NoSecondLook(cont, errors, b) ==
    LET l_ones == countl_one(b) IN
    IF cont # 0 /\ l_ones = 1
    THEN [cont |-> cont - 1, errors |-> errors]
    ELSE IF cont # 0 THEN [cont |-> 0, errors |-> errors + 1]
    ELSE IF l_ones > 4 THEN [cont |-> 0, errors |-> errors + 1]
         ELSE IF l_ones > 1 THEN [cont |-> l_ones - 1, errors |-> errors]
         ELSE IF l_ones = 1 THEN [cont |-> 0, errors |-> errors + 1]
         ELSE [cont |-> 0, errors |-> errors]

(* One pass of the body of the UTF-8 check on byte b.                      *)
Utf8Step(cont, errors, b) ==
    LET l_ones == countl_one(b) IN
    IF cont # 0 /\ l_ones = 1
    THEN [cont |-> cont - 1, errors |-> errors]
    ELSE LET e1 == IF cont # 0 THEN errors + 1 ELSE errors IN
         IF l_ones > 4 THEN [cont |-> 0, errors |-> e1 + 1]
         ELSE IF l_ones > 1 THEN [cont |-> l_ones - 1, errors |-> e1]
         ELSE IF l_ones = 1 THEN [cont |-> 0, errors |-> e1 + 1]
         ELSE [cont |-> 0, errors |-> e1]

--------------------------------------------------------------------------
(* The byte loop over one window: Utf8Step on each byte of bytes in turn.   *)
RECURSIVE Utf8Scan(_, _, _)
Utf8Scan(cont, errors, bytes) ==
    IF bytes = <<>> THEN [cont |-> cont, errors |-> errors]
    ELSE LET s == Utf8Step(cont, errors, Head(bytes))
         IN Utf8Scan(s.cont, s.errors, Tail(bytes))

(* charset.cpp:47 with >= for >.                                           *)
OverCap_Ge(sz) == sz >= SizeLimit

(* charset.cpp:47: the file is over the cap.                               *)
OverCap(sz) == sz > SizeLimit

(* charset.cpp:102 with <= for <.                                          *)
FewErrors_Le(errors) == errors <= 5

(* charset.cpp:102: few enough errors to call the file UTF-8.              *)
FewErrors(errors) == errors < 5

(* The files the model reads.  The byte at offset p of a file of sz bytes  *)
(* is drawn from ByteChoices(sz, p).  A file that is only a header, or is  *)
(* over the cap (the header is all that is read of it), draws each header  *)
(* byte from the bytes the signature literals hold at that offset, a line  *)
(* feed and a letter (and, at offset 0, E2, the lead byte of a 3-byte       *)
(* sequence); a file that is scanned over several windows draws            *)
(* its header from NUL, a letter, a continuation byte and the lead byte of *)
(* a 4-byte sequence (and EF at offset 0 and BB at offset 1, so that it    *)
(* can open with the UTF-8 mark), and the bytes past the header from NUL,  *)
(* a letter, a continuation byte and the lead byte of a 3-byte sequence.   *)
(* When two calls run, each file is drawn from a letter and a continuation *)
(* byte, and NUL at offset 1.                                              *)
SigLits == {LitUtf8, LitUtf32be, LitUtf32le, LitUtf16be, LitUtf16le, LitEbml}

SigBytesAt(p) ==
    {l[p + 1] : l \in {m \in SigLits : Len(m) > p + 1}} \cup {10, 65}
        \cup (IF p = 0 THEN {226} ELSE {})

TwoCalls == \A c \in Calls : pc[c] # "idle"

ByteChoices(sz, p) ==
    IF TwoCalls THEN {65, 191} \cup (IF p = 1 THEN {0} ELSE {})
    ELSE IF sz <= 4 \/ sz > SizeLimit THEN SigBytesAt(p)
    ELSE IF p < 4
         THEN {0, 65, 191, 240} \cup (IF p = 0 THEN {239} ELSE {})
                                \cup (IF p = 1 THEN {187} ELSE {})
    ELSE {0, 65, 191, 239}

(* The ways the bytes of a file of sz bytes, known up to f, can turn out   *)
(* to continue up to offset n: f itself when n bytes are already known.    *)
RECURSIVE Extensions(_, _, _)
Extensions(f, sz, n) ==
    IF Len(f) >= n THEN {f}
    ELSE UNION {Extensions(Append(f, b), sz, n) : b \in ByteChoices(sz, Len(f))}

(* A fresh uchardet handle (uchardet_new).                                 *)
NewHandle == [fed |-> <<>>, ended |-> FALSE]

(* The bytes a handle was fed, in the order of the calls.                  *)
RECURSIVE FedBytes(_, _)
FedBytes(f, fed) ==
    IF fed = <<>> THEN <<>>
    ELSE SubSeq(f, fed[1][1] + 1, fed[1][1] + fed[1][2]) \o FedBytes(f, Tail(fed))

--------------------------------------------------------------------------
TypeOK ==
    /\ with_uchardet \in BOOLEAN
    /\ size \in [Calls -> 0..(SizeLimit + 1)]
    /\ file \in [Calls -> Seq(0..255)]
    /\ \A c \in Calls : Len(file[c]) <= size[c]
    /\ pc \in [Calls -> {"idle", "open", "signature", "size", "scan", "bytes",
                         "degraded", "dbytes", "done", "failed"}]
    /\ reads \in [Calls -> Seq((0..SizeLimit) \X (0..(SizeLimit + 1)))]
    /\ \A c \in Calls : \A k \in 1..Len(reads[c]) :
           reads[c][k][1] + reads[c][k][2] <= size[c]
    /\ buf \in [Calls -> 0..SizeLimit]
    /\ read \in [Calls -> 0..WindowSize]
    /\ offset \in [Calls -> 0..SizeLimit]
    /\ i \in [Calls -> 0..WindowSize]
    /\ binaryish \in [Calls -> 0..SizeLimit]
    /\ utf8_errors \in [Calls -> 0..(SizeLimit + 1)]
    /\ utf8_cont_bytes \in [Calls -> 0..3]
    /\ \A c \in Calls : ud[c].ended \in BOOLEAN /\ Len(ud[c].fed) <= SizeLimit
    /\ \A c \in Calls : result[c].label \in
           {"", "utf-8", "utf-32be", "utf-32le", "utf-16be", "utf-16le",
            "binary", "uchardet_get_charset"}

(* One call of Detect on a file of any size up to one byte over the cap,   *)
(* in either build; the second call never starts.                          *)
Init ==
    /\ with_uchardet \in BOOLEAN
    /\ size \in [Calls -> 0..(SizeLimit + 1)]
    /\ file \in [Calls -> {<<>>}]
    /\ pc \in [Calls -> {"idle", "signature"}]
    /\ reads \in [Calls -> {<<>>}]
    /\ buf \in [Calls -> {0}]
    /\ read \in [Calls -> {0}]
    /\ offset \in [Calls -> {0}]
    /\ i \in [Calls -> {0}]
    /\ binaryish \in [Calls -> {0}]
    /\ utf8_errors \in [Calls -> {0}]
    /\ utf8_cont_bytes \in [Calls -> {0}]
    /\ ud \in [Calls -> {NewHandle}]
    /\ result \in [Calls -> {NoResult}]
    /\ pc[1] = "signature"
    /\ pc[2] = "idle" /\ size[2] = 0

(* Two calls of Detect, in the same build, each on a mapping of its own of *)
(* a file of at most TwoSize bytes; either may run first, or they may run  *)
(* at once.                                                                *)
InitTwo ==
    /\ with_uchardet \in BOOLEAN
    /\ size \in [Calls -> 0..TwoSize]
    /\ file \in [Calls -> {<<>>}]
    /\ pc \in [Calls -> {"signature"}]
    /\ reads \in [Calls -> {<<>>}]
    /\ buf \in [Calls -> {0}]
    /\ read \in [Calls -> {0}]
    /\ offset \in [Calls -> {0}]
    /\ i \in [Calls -> {0}]
    /\ binaryish \in [Calls -> {0}]
    /\ utf8_errors \in [Calls -> {0}]
    /\ utf8_cont_bytes \in [Calls -> {0}]
    /\ ud \in [Calls -> {NewHandle}]
    /\ result \in [Calls -> {NoResult}]

(* return label;                                                           *)
Return(c, r) ==
    /\ result' = [result EXCEPT ![c] = r]
    /\ pc' = [pc EXCEPT ![c] = "done"]

(* SignatureCheck made on every file of 2 bytes or more, the header being  *)
(* the first bytes of the file followed by NUL.                            *)
SignatureCheck_FromTwo(c) ==
    /\ pc[c] = "signature"
    /\ IF size[c] >= 2
       THEN \E header \in Extensions(file[c], size[c], Min(4, size[c])) :
              LET padded == SubSeq(header \o <<0, 0>>, 1, 4) IN
              /\ file' = [file EXCEPT ![c] = header]
              /\ reads' = [reads EXCEPT ![c] = Append(@, <<0, Min(4, size[c])>>)]
              /\ IF Signature(padded) # ""
                 THEN Return(c, Label(Signature(padded)))
                 ELSE /\ pc' = [pc EXCEPT ![c] = "size"]
                      /\ UNCHANGED result
       ELSE /\ pc' = [pc EXCEPT ![c] = "size"]
            /\ UNCHANGED <<file, reads, result>>
    /\ UNCHANGED <<with_uchardet, size, buf, read, offset, i, binaryish,
                   utf8_errors, utf8_cont_bytes, ud>>

(* SignatureCheck with the size cap tested ahead of the magic bytes.       *)
SignatureCheck_SizeFirst(c) ==
    /\ pc[c] = "signature"
    /\ IF size[c] >= 4
       THEN \E header \in Extensions(file[c], size[c], 4) :
              /\ file' = [file EXCEPT ![c] = header]
              /\ reads' = [reads EXCEPT ![c] = Append(@, <<0, 4>>)]
              /\ IF OverCap(size[c])
                 THEN Return(c, Label("binary"))
                 ELSE IF Signature(SubSeq(header, 1, 4)) # ""
                 THEN Return(c, Label(Signature(SubSeq(header, 1, 4))))
                 ELSE /\ pc' = [pc EXCEPT ![c] = "size"]
                      /\ UNCHANGED result
       ELSE /\ pc' = [pc EXCEPT ![c] = "size"]
            /\ UNCHANGED <<file, reads, result>>
    /\ UNCHANGED <<with_uchardet, size, buf, read, offset, i, binaryish,
                   utf8_errors, utf8_cont_bytes, ud>>

(* charset.cpp:29-43: the magic bytes.                                     *)
SignatureCheck(c) ==
    /\ pc[c] = "signature"
    /\ IF size[c] >= 4
       THEN \E header \in Extensions(file[c], size[c], 4) :
              /\ file' = [file EXCEPT ![c] = header]
              /\ reads' = [reads EXCEPT ![c] = Append(@, <<0, 4>>)]
              /\ IF Signature(SubSeq(header, 1, 4)) # ""
                 THEN Return(c, Label(Signature(SubSeq(header, 1, 4))))
                 ELSE /\ pc' = [pc EXCEPT ![c] = "size"]
                      /\ UNCHANGED result
       ELSE /\ pc' = [pc EXCEPT ![c] = "size"]
            /\ UNCHANGED <<file, reads, result>>
    /\ UNCHANGED <<with_uchardet, size, buf, read, offset, i, binaryish,
                   utf8_errors, utf8_cont_bytes, ud>>

(* SizeCheck with utf8_errors a static of the function: a call starts from *)
(* the count the other call has left.                                      *)
SizeCheck_StaticErrors(c) ==
    /\ pc[c] = "size"
    /\ IF OverCap(size[c])
       THEN /\ Return(c, Label("binary"))
            /\ UNCHANGED <<binaryish, utf8_errors, utf8_cont_bytes, ud, offset>>
       ELSE /\ binaryish' = [binaryish EXCEPT ![c] = 0]
            /\ utf8_errors' = [utf8_errors EXCEPT ![c] = utf8_errors[3 - c]]
            /\ IF with_uchardet
               THEN /\ ud' = [ud EXCEPT ![c] = NewHandle]
                    /\ utf8_cont_bytes' = [utf8_cont_bytes EXCEPT ![c] = 0]
                    /\ offset' = [offset EXCEPT ![c] = 0]
                    /\ pc' = [pc EXCEPT ![c] = "scan"]
               ELSE /\ pc' = [pc EXCEPT ![c] = "degraded"]
                    /\ UNCHANGED <<ud, utf8_cont_bytes, offset>>
            /\ UNCHANGED result
    /\ UNCHANGED <<with_uchardet, size, file, reads, buf, read, i>>

(* charset.cpp:47-55: the size cap, then the locals of the scan.           *)
SizeCheck(c) ==
    /\ pc[c] = "size"
    /\ IF OverCap(size[c])
       THEN /\ Return(c, Label("binary"))
            /\ UNCHANGED <<binaryish, utf8_errors, utf8_cont_bytes, ud, offset>>
       ELSE /\ binaryish' = [binaryish EXCEPT ![c] = 0]
            /\ utf8_errors' = [utf8_errors EXCEPT ![c] = 0]
            /\ IF with_uchardet
               THEN /\ ud' = [ud EXCEPT ![c] = NewHandle]
                    /\ utf8_cont_bytes' = [utf8_cont_bytes EXCEPT ![c] = 0]
                    /\ offset' = [offset EXCEPT ![c] = 0]
                    /\ pc' = [pc EXCEPT ![c] = "scan"]
               ELSE /\ pc' = [pc EXCEPT ![c] = "degraded"]
                    /\ UNCHANGED <<ud, utf8_cont_bytes, offset>>
            /\ UNCHANGED result
    /\ UNCHANGED <<with_uchardet, size, file, reads, buf, read, i>>

(* ReadWindow with utf8_cont_bytes declared inside the window loop.         *)
ReadWindow_ResetCont(c) ==
    /\ pc[c] = "scan"
    /\ offset[c] < size[c]
    /\ LET n == Min(WindowSize, size[c] - offset[c]) IN
       /\ read' = [read EXCEPT ![c] = n]
       /\ buf' = [buf EXCEPT ![c] = offset[c]]
       /\ reads' = [reads EXCEPT ![c] = Append(@, <<offset[c], n>>)]
       /\ ud' = [ud EXCEPT ![c].fed = Append(@, <<offset[c], n>>)]
       /\ offset' = [offset EXCEPT ![c] = @ + n]
    /\ i' = [i EXCEPT ![c] = 0]
    /\ utf8_cont_bytes' = [utf8_cont_bytes EXCEPT ![c] = 0]
    /\ pc' = [pc EXCEPT ![c] = "bytes"]
    /\ UNCHANGED <<with_uchardet, size, file, binaryish, utf8_errors, result>>

(* ReadWindow with the window loop as a do-while: a window is read before  *)
(* the first test of offset against the size.                              *)
ReadWindow_AtLeastOnce(c) ==
    /\ pc[c] = "scan"
    /\ offset[c] < size[c] \/ reads[c] = <<>>
    /\ LET n == Min(WindowSize, size[c] - offset[c]) IN
       /\ read' = [read EXCEPT ![c] = n]
       /\ buf' = [buf EXCEPT ![c] = offset[c]]
       /\ reads' = [reads EXCEPT ![c] = Append(@, <<offset[c], n>>)]
       /\ ud' = [ud EXCEPT ![c].fed = Append(@, <<offset[c], n>>)]
       /\ offset' = [offset EXCEPT ![c] = @ + n]
    /\ i' = [i EXCEPT ![c] = 0]
    /\ pc' = [pc EXCEPT ![c] = "bytes"]
    /\ UNCHANGED <<with_uchardet, size, file, binaryish, utf8_errors,
                   utf8_cont_bytes, result>>

(* ReadWindow with every window read at the full length.                   *)
ReadWindow_NoMin(c) ==
    /\ pc[c] = "scan"
    /\ offset[c] < size[c]
    /\ LET n == WindowSize IN
       /\ read' = [read EXCEPT ![c] = n]
       /\ buf' = [buf EXCEPT ![c] = offset[c]]
       /\ reads' = [reads EXCEPT ![c] = Append(@, <<offset[c], n>>)]
       /\ ud' = [ud EXCEPT ![c].fed = Append(@, <<offset[c], n>>)]
       /\ offset' = [offset EXCEPT ![c] = @ + n]
    /\ i' = [i EXCEPT ![c] = 0]
    /\ pc' = [pc EXCEPT ![c] = "bytes"]
    /\ UNCHANGED <<with_uchardet, size, file, binaryish, utf8_errors,
                   utf8_cont_bytes, result>>

(* ReadWindow without offset += read.                                      *)
ReadWindow_NoAdvance(c) ==
    /\ pc[c] = "scan"
    /\ offset[c] < size[c]
    /\ LET n == Min(WindowSize, size[c] - offset[c]) IN
       /\ read' = [read EXCEPT ![c] = n]
       /\ buf' = [buf EXCEPT ![c] = offset[c]]
       /\ reads' = [reads EXCEPT ![c] = Append(@, <<offset[c], n>>)]
       /\ ud' = [ud EXCEPT ![c].fed = Append(@, <<offset[c], n>>)]
    /\ i' = [i EXCEPT ![c] = 0]
    /\ pc' = [pc EXCEPT ![c] = "bytes"]
    /\ UNCHANGED <<with_uchardet, size, file, offset, binaryish, utf8_errors,
                   utf8_cont_bytes, result>>

(* charset.cpp:56-61: the loop test holds; read a window, feed it to       *)
(* uchardet, advance offset.                                               *)
ReadWindow(c) ==
    /\ pc[c] = "scan"
    /\ offset[c] < size[c]
    /\ LET n == Min(WindowSize, size[c] - offset[c]) IN
       /\ read' = [read EXCEPT ![c] = n]
       /\ buf' = [buf EXCEPT ![c] = offset[c]]
       /\ reads' = [reads EXCEPT ![c] = Append(@, <<offset[c], n>>)]
       /\ ud' = [ud EXCEPT ![c].fed = Append(@, <<offset[c], n>>)]
       /\ offset' = [offset EXCEPT ![c] = @ + n]
    /\ i' = [i EXCEPT ![c] = 0]
    /\ pc' = [pc EXCEPT ![c] = "bytes"]
    /\ UNCHANGED <<with_uchardet, size, file, binaryish, utf8_errors,
                   utf8_cont_bytes, result>>

(* charset.cpp:63-93: one pass of the byte loop, on buf[i].                *)
ScanByte(c) ==
    /\ pc[c] = "bytes"
    /\ i[c] < read[c]
    /\ \E f \in Extensions(file[c], size[c], buf[c] + i[c] + 1) :
         LET b == f[buf[c] + i[c] + 1]
             s == Utf8Step(utf8_cont_bytes[c], utf8_errors[c], b)
         IN /\ file' = [file EXCEPT ![c] = f]
            /\ binaryish' = [binaryish EXCEPT ![c] = IF IsBinaryish(b) THEN @ + 1 ELSE @]
            /\ utf8_cont_bytes' = [utf8_cont_bytes EXCEPT ![c] = s.cont]
            /\ utf8_errors' = [utf8_errors EXCEPT ![c] = s.errors]
    /\ i' = [i EXCEPT ![c] = @ + 1]
    /\ UNCHANGED <<with_uchardet, size, pc, reads, buf, read, offset, ud, result>>

(* RatioCheck with the ratio taken against the length of the window in     *)
(* place of offset.                                                        *)
RatioCheck_PerWindow(c) ==
    /\ pc[c] = "bytes"
    /\ ~(i[c] < read[c])
    /\ IF binaryish[c] > read[c] \div 8
       THEN Return(c, Label("binary"))
       ELSE /\ pc' = [pc EXCEPT ![c] = "scan"]
            /\ UNCHANGED result
    /\ UNCHANGED <<with_uchardet, size, file, reads, buf, read, offset, i,
                   binaryish, utf8_errors, utf8_cont_bytes, ud>>

(* RatioCheck with binaryish a counter the calls share.                    *)
RatioCheck_SharedCount(c) ==
    /\ pc[c] = "bytes"
    /\ ~(i[c] < read[c])
    /\ IF binaryish[c] + binaryish[3 - c] > offset[c] \div 8
       THEN Return(c, Label("binary"))
       ELSE /\ pc' = [pc EXCEPT ![c] = "scan"]
            /\ UNCHANGED result
    /\ UNCHANGED <<with_uchardet, size, file, reads, buf, read, offset, i,
                   binaryish, utf8_errors, utf8_cont_bytes, ud>>

(* charset.cpp:63,95-97: the byte loop is over; the ratio test.            *)
RatioCheck(c) ==
    /\ pc[c] = "bytes"
    /\ ~(i[c] < read[c])
    /\ IF binaryish[c] > offset[c] \div 8
       THEN Return(c, Label("binary"))
       ELSE /\ pc' = [pc EXCEPT ![c] = "scan"]
            /\ UNCHANGED result
    /\ UNCHANGED <<with_uchardet, size, file, reads, buf, read, offset, i,
                   binaryish, utf8_errors, utf8_cont_bytes, ud>>

(* Finalize with the error for the end of the file counted whether a       *)
(* sequence is open or not.                                                *)
Finalize_AlwaysTruncation(c) ==
    /\ pc[c] = "scan"
    /\ ~(offset[c] < size[c])
    /\ LET errors == utf8_errors[c] + 1
       IN /\ utf8_errors' = [utf8_errors EXCEPT ![c] = errors]
          /\ IF FewErrors(errors)
             THEN /\ Return(c, Label("utf-8"))
                  /\ UNCHANGED ud
             ELSE /\ ud' = [ud EXCEPT ![c].ended = TRUE]
                  /\ Return(c, Guess(FedBytes(file[c], ud[c].fed)))
    /\ UNCHANGED <<with_uchardet, size, file, reads, buf, read, offset, i,
                   binaryish, utf8_cont_bytes>>

(* Finalize without uchardet_data_end before uchardet_get_charset.         *)
Finalize_NoDataEnd(c) ==
    /\ pc[c] = "scan"
    /\ ~(offset[c] < size[c])
    /\ LET errors == IF utf8_cont_bytes[c] # 0 THEN utf8_errors[c] + 1
                     ELSE utf8_errors[c]
       IN /\ utf8_errors' = [utf8_errors EXCEPT ![c] = errors]
          /\ UNCHANGED ud
          /\ IF FewErrors(errors)
             THEN Return(c, Label("utf-8"))
             ELSE Return(c, Guess(FedBytes(file[c], ud[c].fed)))
    /\ UNCHANGED <<with_uchardet, size, file, reads, buf, read, offset, i,
                   binaryish, utf8_cont_bytes>>

(* Finalize without the error for a sequence left open at the end.         *)
Finalize_NoTruncation(c) ==
    /\ pc[c] = "scan"
    /\ ~(offset[c] < size[c])
    /\ IF FewErrors(utf8_errors[c])
       THEN /\ Return(c, Label("utf-8"))
            /\ UNCHANGED ud
       ELSE /\ ud' = [ud EXCEPT ![c].ended = TRUE]
            /\ Return(c, Guess(FedBytes(file[c], ud[c].fed)))
    /\ UNCHANGED <<with_uchardet, size, file, reads, buf, read, offset, i,
                   binaryish, utf8_errors, utf8_cont_bytes>>

(* charset.cpp:56,98-105: the window loop is over; the verdict.            *)
Finalize(c) ==
    /\ pc[c] = "scan"
    /\ ~(offset[c] < size[c])
    /\ LET errors == IF utf8_cont_bytes[c] # 0 THEN utf8_errors[c] + 1
                     ELSE utf8_errors[c]
       IN /\ utf8_errors' = [utf8_errors EXCEPT ![c] = errors]
          /\ IF FewErrors(errors)
             THEN /\ Return(c, Label("utf-8"))
                  /\ UNCHANGED ud
             ELSE /\ ud' = [ud EXCEPT ![c].ended = TRUE]
                  /\ Return(c, Guess(FedBytes(file[c], ud[c].fed)))
    /\ UNCHANGED <<with_uchardet, size, file, reads, buf, read, offset, i,
                   binaryish, utf8_cont_bytes>>

(* charset.cpp:107-108: without uchardet, read the first window only.      *)
DegradedRead(c) ==
    /\ pc[c] = "degraded"
    /\ LET n == Min(WindowSize, size[c]) IN
       /\ read' = [read EXCEPT ![c] = n]
       /\ reads' = [reads EXCEPT ![c] = Append(@, <<0, n>>)]
    /\ buf' = [buf EXCEPT ![c] = 0]
    /\ i' = [i EXCEPT ![c] = 0]
    /\ pc' = [pc EXCEPT ![c] = "dbytes"]
    /\ UNCHANGED <<with_uchardet, size, file, offset, binaryish, utf8_errors,
                   utf8_cont_bytes, ud, result>>

(* DegradedByte with \n counted as a control byte, unlike the byte loop of *)
(* the other build.                                                        *)
DegradedByte_CountsLf(c) ==
    /\ pc[c] = "dbytes"
    /\ i[c] < read[c]
    /\ \E f \in Extensions(file[c], size[c], buf[c] + i[c] + 1) :
         LET b == f[buf[c] + i[c] + 1]
         IN /\ file' = [file EXCEPT ![c] = f]
            /\ binaryish' = [binaryish EXCEPT ![c] =
                                 IF b < 32 /\ (b # 13 /\ b # 9) THEN @ + 1 ELSE @]
    /\ i' = [i EXCEPT ![c] = @ + 1]
    /\ UNCHANGED <<with_uchardet, size, pc, reads, buf, read, offset,
                   utf8_errors, utf8_cont_bytes, ud, result>>

(* charset.cpp:109-112: one pass of the byte loop of that build.           *)
DegradedByte(c) ==
    /\ pc[c] = "dbytes"
    /\ i[c] < read[c]
    /\ \E f \in Extensions(file[c], size[c], buf[c] + i[c] + 1) :
         LET b == f[buf[c] + i[c] + 1]
         IN /\ file' = [file EXCEPT ![c] = f]
            /\ binaryish' = [binaryish EXCEPT ![c] = IF IsBinaryish(b) THEN @ + 1 ELSE @]
    /\ i' = [i EXCEPT ![c] = @ + 1]
    /\ UNCHANGED <<with_uchardet, size, pc, reads, buf, read, offset,
                   utf8_errors, utf8_cont_bytes, ud, result>>

(* DegradedDecide with >= for > in the ratio test.                         *)
DegradedDecide_Ge(c) ==
    /\ pc[c] = "dbytes"
    /\ ~(i[c] < read[c])
    /\ IF binaryish[c] >= read[c] \div 8
       THEN Return(c, Label("binary"))
       ELSE Return(c, Label("utf-8"))
    /\ UNCHANGED <<with_uchardet, size, file, reads, buf, read, offset, i,
                   binaryish, utf8_errors, utf8_cont_bytes, ud>>

(* charset.cpp:109,114-116: the verdict of that build.                     *)
DegradedDecide(c) ==
    /\ pc[c] = "dbytes"
    /\ ~(i[c] < read[c])
    /\ IF binaryish[c] > read[c] \div 8
       THEN Return(c, Label("binary"))
       ELSE Return(c, Label("utf-8"))
    /\ UNCHANGED <<with_uchardet, size, file, reads, buf, read, offset, i,
                   binaryish, utf8_errors, utf8_cont_bytes, ud>>

Next ==
    \E c \in Calls :
        \/ SignatureCheck(c)
        \/ SizeCheck(c)
        \/ ReadWindow(c)
        \/ ScanByte(c)
        \/ RatioCheck(c)
        \/ Finalize(c)
        \/ DegradedRead(c)
        \/ DegradedByte(c)
        \/ DegradedDecide(c)

Spec == Init /\ [][Next]_vars

(* Two calls, their steps interleaved in every way.                        *)
SpecTwo == InitTwo /\ [][Next]_vars

--------------------------------------------------------------------------
(* The byte loop on every pair of bytes.                                   *)
ByteValues == 0..255

(* One call of the full build on a file of two bytes, of any values, that  *)
(* has just read them as its one window.                                   *)
InitStep ==
    /\ with_uchardet = TRUE
    /\ size = [c \in Calls |-> IF c = 1 THEN 2 ELSE 0]
    /\ \E a \in ByteValues, b \in ByteValues :
          file = [c \in Calls |-> IF c = 1 THEN <<a, b>> ELSE <<>>]
    /\ pc = [c \in Calls |-> IF c = 1 THEN "bytes" ELSE "idle"]
    /\ reads = [c \in Calls |-> IF c = 1 THEN <<<<0, 2>>>> ELSE <<>>]
    /\ buf \in [Calls -> {0}]
    /\ read = [c \in Calls |-> IF c = 1 THEN 2 ELSE 0]
    /\ offset = [c \in Calls |-> IF c = 1 THEN 2 ELSE 0]
    /\ i \in [Calls -> {0}]
    /\ binaryish \in [Calls -> {0}]
    /\ utf8_errors \in [Calls -> {0}]
    /\ utf8_cont_bytes \in [Calls -> {0}]
    /\ ud = [c \in Calls |-> IF c = 1 THEN [fed |-> <<<<0, 2>>>>, ended |-> FALSE]
                              ELSE NewHandle]
    /\ result \in [Calls -> {NoResult}]

NextStep == \E c \in Calls : ScanByte(c)

SpecStep == InitStep /\ [][NextStep]_vars

--------------------------------------------------------------------------
(* Detect with a file that may fail to open or to be read.  The mapping    *)
(* (agi::read_file_mapping) is not part of the source at hand; that its    *)
(* constructor and its read can fail, and that the failure is an exception *)
(* at the call, is taken from sections 6 and 7 of the specification.       *)

(* One call of Detect that has not constructed its mapping yet.            *)
InitIO ==
    /\ with_uchardet \in BOOLEAN
    /\ size \in [Calls -> 0..(SizeLimit + 1)]
    /\ file \in [Calls -> {<<>>}]
    /\ pc \in [Calls -> {"idle", "open"}]
    /\ reads \in [Calls -> {<<>>}]
    /\ buf \in [Calls -> {0}]
    /\ read \in [Calls -> {0}]
    /\ offset \in [Calls -> {0}]
    /\ i \in [Calls -> {0}]
    /\ binaryish \in [Calls -> {0}]
    /\ utf8_errors \in [Calls -> {0}]
    /\ utf8_cont_bytes \in [Calls -> {0}]
    /\ ud \in [Calls -> {NewHandle}]
    /\ result \in [Calls -> {NoResult}]
    /\ pc[1] = "open"
    /\ pc[2] = "idle" /\ size[2] = 0

(* charset.cpp:26: the mapping is constructed.                             *)
Open(c) ==
    /\ pc[c] = "open"
    /\ pc' = [pc EXCEPT ![c] = "signature"]
    /\ UNCHANGED <<with_uchardet, size, file, reads, buf, read, offset, i,
                   binaryish, utf8_errors, utf8_cont_bytes, ud, result>>

(* An exception leaves Detect: no handler in it, nothing returned.         *)
Throw(c) ==
    /\ pc' = [pc EXCEPT ![c] = "failed"]
    /\ UNCHANGED <<with_uchardet, size, file, reads, buf, read, offset, i,
                   binaryish, utf8_errors, utf8_cont_bytes, ud, result>>

(* The constructor of the mapping fails.                                   *)
OpenFails(c) ==
    /\ pc[c] = "open"
    /\ Throw(c)

(* Call c is at a read of its mapping: charset.cpp:30, 58 or 108.          *)
AtRead(c) ==
    \/ pc[c] = "signature" /\ size[c] >= 4
    \/ pc[c] = "scan" /\ offset[c] < size[c]
    \/ pc[c] = "degraded"

(* fp.read fails.                                                          *)
ReadFails(c) ==
    /\ AtRead(c)
    /\ Throw(c)

(* A handler in Detect that turns a failure into the label binary.         *)
CatchAll(c) ==
    /\ pc[c] = "failed"
    /\ Return(c, Label("binary"))
    /\ UNCHANGED <<with_uchardet, size, file, reads, buf, read, offset, i,
                   binaryish, utf8_errors, utf8_cont_bytes, ud>>

(* NextIO with such a handler.                                             *)
NextIO_Catch ==
    \/ Next
    \/ \E c \in Calls :
          \/ Open(c)
          \/ OpenFails(c)
          \/ ReadFails(c)
          \/ CatchAll(c)

(* charset.cpp:25-118 with the failures: Detect has no try block.          *)
NextIO ==
    \/ Next
    \/ \E c \in Calls :
          \/ Open(c)
          \/ OpenFails(c)
          \/ ReadFails(c)

SpecIO == InitIO /\ [][NextIO]_vars

--------------------------------------------------------------------------
(* What the claims speak of.                                               *)

(* The first four bytes of the file of call c (when it has four).          *)
Header(c) == SubSeq(file[c], 1, 4)

(* The signature check of call c is over and returned nothing.             *)
NoSignatureReturn(c) ==
    /\ pc[c] \notin {"idle", "signature"}
    /\ size[c] >= 4 => Signature(Header(c)) = ""

(* The table of section 4.1 of the specification, read as byte equality:   *)
(* the label of the first signature that header h begins with, "" if none. *)
TableSignature(h) ==
    IF SubSeq(h, 1, 3) = <<239, 187, 191>> THEN "utf-8"
    ELSE IF h = <<0, 0, 254, 255>> THEN "utf-32be"
    ELSE IF h = <<255, 254, 0, 0>> THEN "utf-32le"
    ELSE IF SubSeq(h, 1, 2) = <<254, 255>> THEN "utf-16be"
    ELSE IF SubSeq(h, 1, 2) = <<255, 254>> THEN "utf-16le"
    ELSE IF h = <<26, 69, 223, 163>> THEN "binary"
    ELSE ""

(* The number of control bytes (below 32, not CR, LF or TAB) in bytes.     *)
ControlCount(bytes) ==
    Cardinality({k \in 1..Len(bytes) : bytes[k] < 32 /\ bytes[k] \notin {9, 10, 13}})

(* The length of the first scan window of call c.                          *)
FirstWindowLen(c) == Min(WindowSize, size[c])

(* The scan windows call c has read: its reads but the one of the header.  *)
ScanReads(c) ==
    IF reads[c] # <<>> /\ pc[c] \notin {"idle", "signature"} /\ size[c] >= 4
    THEN Tail(reads[c]) ELSE reads[c]

(* C1: once the signature check of a call is over, the call has returned   *)
(* utf-32be exactly when the file has at least 4 bytes and its first four  *)
(* are 00 00 FE FF.                                                        *)
C1_Utf32beExactly ==
    \A c \in Calls :
        pc[c] \notin {"idle", "signature"} =>
            (result[c] = Label("utf-32be")
                <=> (size[c] >= 4 /\ Header(c) = <<0, 0, 254, 255>>))

(* C2: once the signature check of a call is over, the call has returned   *)
(* utf-32le exactly when the first four bytes are FF FE 00 00, and a file  *)
(* of at least 4 bytes that opens with FF FE and whose bytes 3-4 are not   *)
(* both 00 has returned utf-16le.                                          *)
C2_Utf32leExactly ==
    \A c \in Calls :
        pc[c] \notin {"idle", "signature"} =>
            /\ result[c] = Label("utf-32le")
                   <=> (size[c] >= 4 /\ Header(c) = <<255, 254, 0, 0>>)
            /\ (size[c] >= 4 /\ SubSeq(file[c], 1, 2) = <<255, 254>>
                    /\ SubSeq(file[c], 3, 4) # <<0, 0>>)
                   => result[c] = Label("utf-16le")

(* C3: a call that has returned, on a file of at most SizeLimit bytes      *)
(* whose header matches none of the six signatures of the table and whose  *)
(* first window holds control bytes for more than one eighth of its        *)
(* length, has returned binary after reading that one window.              *)
C3_BinaryRatioShortCircuit ==
    \A c \in Calls :
        ( /\ pc[c] = "done"
          /\ size[c] <= SizeLimit
          /\ Len(file[c]) >= FirstWindowLen(c)
          /\ size[c] >= 4 => TableSignature(Header(c)) = ""
          /\ 8 * ControlCount(SubSeq(file[c], 1, FirstWindowLen(c))) > FirstWindowLen(c) )
        => (result[c] = Label("binary") /\ Len(ScanReads(c)) = 1)

(* The same with "matches no signature" read as the code's own check       *)
(* returning nothing: what is left of C3 apart from the headers that       *)
(* strncmp takes for a signature.                                          *)
BinaryRatioWhenNoSignatureReturn ==
    \A c \in Calls :
        ( /\ pc[c] = "done"
          /\ size[c] <= SizeLimit
          /\ Len(file[c]) >= FirstWindowLen(c)
          /\ NoSignatureReturn(c)
          /\ 8 * ControlCount(SubSeq(file[c], 1, FirstWindowLen(c))) > FirstWindowLen(c) )
        => (result[c] = Label("binary") /\ Len(ScanReads(c)) = 1)

(* Every byte of bytes is ASCII (00..7F).                                  *)
AllAscii(bytes) == \A k \in 1..Len(bytes) : bytes[k] <= 127

(* Every byte of bytes is ASCII and none is a control byte other than CR,  *)
(* LF and TAB.                                                             *)
AllAsciiText(bytes) ==
    \A k \in 1..Len(bytes) :
        bytes[k] <= 127 /\ (bytes[k] >= 32 \/ bytes[k] \in {9, 10, 13})

(* C4 as stated: a call that has returned, on a file of any length whose   *)
(* bytes are all ASCII and whose header neither matches a signature of the *)
(* table nor made the signature check return, has returned utf-8.  (The    *)
(* bytes the call never read are free to be ASCII too.)                    *)
C4_AsciiAnyLength ==
    \A c \in Calls :
        ( /\ pc[c] = "done"
          /\ AllAscii(file[c])
          /\ NoSignatureReturn(c)
          /\ size[c] >= 4 => TableSignature(Header(c)) = "" )
        => result[c] = Label("utf-8")

(* C4 amended: a call that has returned, on a file of at most SizeLimit    *)
(* bytes in which every byte read is ASCII and none is a control byte      *)
(* other than CR, LF and TAB, has returned utf-8 (in both builds).         *)
C4_AsciiText ==
    \A c \in Calls :
        (pc[c] = "done" /\ size[c] <= SizeLimit /\ AllAsciiText(file[c]))
        => result[c] = Label("utf-8")

(* C4's case: the full build has scanned, in more than one window, a file  *)
(* of ASCII text with a line feed in it, and returned.                     *)
C4_Witness ==
    \E c \in Calls :
        /\ pc[c] = "done" /\ with_uchardet
        /\ size[c] > WindowSize /\ Len(file[c]) = size[c]
        /\ AllAsciiText(file[c])
        /\ \E k \in 1..Len(file[c]) : file[c][k] = 10
        /\ Len(ScanReads(c)) > 1

(* The scan of call c was entered and ran to the end of the file: the      *)
(* call returned from the verdict after the window loop.                   *)
ScanRanOut(c) ==
    /\ pc[c] = "done" /\ with_uchardet
    /\ NoSignatureReturn(c) /\ size[c] <= SizeLimit
    /\ result[c] # Label("binary")

(* The errors of one pass over bytes as a single window, the one for a     *)
(* sequence still open at the end included.                                *)
OnePassErrors(bytes) ==
    LET s == Utf8Scan(0, 0, bytes)
    IN IF s.cont # 0 THEN s.errors + 1 ELSE s.errors

(* bytes, from index k on, is a run of well-formed sequences: ASCII bytes, *)
(* and lead bytes of 2 to 4 leading ones each followed by its due of       *)
(* continuation bytes.                                                     *)
RECURSIVE WellFormedFrom(_, _)
WellFormedFrom(bytes, k) ==
    IF k > Len(bytes) THEN TRUE
    ELSE LET n == countl_one(bytes[k]) IN
         IF n = 0 THEN WellFormedFrom(bytes, k + 1)
         ELSE /\ n \in 2..4
              /\ k + n - 1 <= Len(bytes)
              /\ \A j \in (k + 1)..(k + n - 1) : countl_one(bytes[j]) = 1
              /\ WellFormedFrom(bytes, k + n)

(* C5: in the full build the validator state of a call, at every window    *)
(* boundary and after every byte, is the state of one pass over the bytes  *)
(* processed so far taken as a single window; when the scan has run out    *)
(* the final utf8_errors is that of one pass over the whole file; and a    *)
(* file of well-formed sequences ends with no error wherever the window    *)
(* boundaries fall in them.                                                *)
C5_WindowedEqualsOnePass ==
    \A c \in Calls :
        /\ (with_uchardet /\ pc[c] \in {"scan", "bytes"}) =>
               [cont |-> utf8_cont_bytes[c], errors |-> utf8_errors[c]]
                   = Utf8Scan(0, 0, SubSeq(file[c], 1,
                                 IF pc[c] = "bytes" THEN buf[c] + i[c] ELSE offset[c]))
        /\ ScanRanOut(c) =>
               /\ Len(file[c]) = size[c]
               /\ utf8_errors[c] = OnePassErrors(file[c])
               /\ WellFormedFrom(file[c], 1) => utf8_errors[c] = 0

(* C5's case: the scan ran out with no error over a file in which a lead   *)
(* byte is the last byte of a window and its continuation bytes, two or    *)
(* more, open the next window.                                             *)
C5_Witness ==
    \E c \in Calls :
        /\ ScanRanOut(c) /\ utf8_errors[c] = 0
        /\ \E w \in 1..size[c] :
              /\ w % WindowSize = 0 /\ w + 2 <= size[c]
              /\ countl_one(file[c][w]) >= 3
              /\ countl_one(file[c][w + 1]) = 1
              /\ countl_one(file[c][w + 2]) = 1

(* C6: a call that has returned, on a file of 3 bytes or more that opens   *)
(* with EF BB BF, has returned utf-8, in both builds and whatever the size *)
(* and the bytes that follow.                                              *)
C6_Utf8Bom ==
    \A c \in Calls :
        (pc[c] = "done" /\ size[c] >= 3 /\ Len(file[c]) >= 3
            /\ SubSeq(file[c], 1, 3) = <<239, 187, 191>>)
        => result[c] = Label("utf-8")

(* C6's case: a file over the cap that opens with EF BB BF and goes on     *)
(* with NUL has returned.                                                  *)
C6_Witness ==
    \E c \in Calls :
        /\ pc[c] = "done" /\ size[c] > SizeLimit
        /\ Len(file[c]) >= 4 /\ Header(c) = <<239, 187, 191, 0>>

(* C7: a call that has returned, on a file whose first four bytes are      *)
(* FF FE 00 00, has returned utf-32le.                                     *)
C7_Utf32leBeforeUtf16le ==
    \A c \in Calls :
        (pc[c] = "done" /\ size[c] >= 4 /\ Header(c) = <<255, 254, 0, 0>>)
        => result[c] = Label("utf-32le")

(* C7's case: a file of the four bytes FF FE 00 00 has returned.           *)
C7_Witness ==
    \E c \in Calls :
        pc[c] = "done" /\ size[c] = 4 /\ file[c] = <<255, 254, 0, 0>>

(* C8: of the calls whose signature check returned nothing, those on a     *)
(* file over SizeLimit have returned binary once past the size check,      *)
(* having read the header and nothing else; those on a file of at most     *)
(* SizeLimit bytes go on to the scan, and none of them returns binary      *)
(* without having read a scan window.                                      *)
C8_SizeShortCircuit ==
    \A c \in Calls :
        (NoSignatureReturn(c) /\ pc[c] # "size") =>
            /\ size[c] > SizeLimit =>
                   /\ pc[c] = "done" /\ result[c] = Label("binary")
                   /\ reads[c] = <<<<0, 4>>>>
            /\ size[c] <= SizeLimit =>
                   /\ (pc[c] = "done" /\ result[c] = Label("binary"))
                          => Len(ScanReads(c)) >= 1
                   /\ (pc[c] = "done" /\ size[c] > 0) => Len(ScanReads(c)) >= 1

(* C8's case: a file of SizeLimit + 1 bytes with no signature has returned *)
(* binary.                                                                 *)
C8_Witness ==
    \E c \in Calls :
        /\ NoSignatureReturn(c) /\ pc[c] = "done"
        /\ size[c] = SizeLimit + 1 /\ result[c] = Label("binary")

(* The other case of C8: a file of exactly SizeLimit bytes has been        *)
(* scanned to its end.                                                     *)
C8_WitnessAtLimit ==
    \E c \in Calls :
        /\ ScanRanOut(c) /\ size[c] = SizeLimit /\ offset[c] = SizeLimit

(* C9: in the full build, the step that leaves the window loop at the end  *)
(* of the file returns utf-8 if and only if utf8_errors, with the error    *)
(* for a sequence open at the end counted, is below 5, and returns what    *)
(* uchardet says of the bytes of the whole file otherwise; the size of the *)
(* file plays no part.                                                     *)
C9_DecisionRule ==
    [][\A c \in Calls :
          (pc[c] = "scan" /\ pc'[c] = "done") =>
              /\ utf8_errors'[c] = utf8_errors[c] + (IF utf8_cont_bytes[c] > 0 THEN 1 ELSE 0)
              /\ result'[c] = Label("utf-8") <=> utf8_errors'[c] < 5
              /\ utf8_errors'[c] >= 5 =>
                     /\ result'[c] = Guess(file[c])
                     /\ ud'[c].ended]_vars

(* C9's case: the scan ran out with exactly 5 errors, the last of them for *)
(* a sequence open at the end, and the label is uchardet's.                *)
C9_Witness ==
    \E c \in Calls :
        /\ ScanRanOut(c) /\ utf8_errors[c] = 5 /\ utf8_cont_bytes[c] > 0
        /\ result[c] = Guess(file[c])

(* C10: in every state of the scan of the full build binaryish <= offset   *)
(* and utf8_cont_bytes is in 0..3, and no step lowers utf8_errors.         *)
C10_DetectionStateInvariant ==
    /\ [](\A c \in Calls :
            with_uchardet =>
                /\ binaryish[c] <= offset[c]
                /\ utf8_cont_bytes[c] \in 0..3)
    /\ [][\A c \in Calls : utf8_errors'[c] >= utf8_errors[c]]_vars

(* C10's case: in the byte loop of a window past the first, with errors    *)
(* counted, right after a lead byte that leaves three continuation bytes   *)
(* due.                                                                    *)
C10_Witness ==
    \E c \in Calls :
        /\ with_uchardet /\ pc[c] = "bytes" /\ buf[c] > 0
        /\ utf8_cont_bytes[c] = 3 /\ utf8_errors[c] > 0

(* C11: in the full build the step that leaves the window loop at the end  *)
(* of the file adds exactly one error when a sequence is still open        *)
(* (utf8_cont_bytes > 0) and none otherwise, and no other step counts an   *)
(* error for the end of the file; the call on the 1-byte file E2 ends with *)
(* utf8_errors = 1 and returns utf-8.                                      *)
C11_EndOfInputTruncation ==
    /\ [][\A c \in Calls :
            (pc[c] = "scan" /\ pc'[c] = "done") =>
                /\ offset[c] = size[c]
                /\ utf8_errors'[c] - utf8_errors[c]
                       = (IF utf8_cont_bytes[c] > 0 THEN 1 ELSE 0)]_vars
    /\ [](\A c \in Calls :
            (pc[c] = "done" /\ with_uchardet /\ size[c] = 1 /\ file[c] = <<226>>)
                => (utf8_errors[c] = 1 /\ result[c] = Label("utf-8")))

(* C11's case: the full build has returned on the 1-byte file E2, with the *)
(* sequence that E2 opened still open.                                     *)
C11_Witness ==
    \E c \in Calls :
        /\ pc[c] = "done" /\ with_uchardet
        /\ size[c] = 1 /\ file[c] = <<226>> /\ utf8_cont_bytes[c] = 2

(* The phase of section 4.6 a control point of Detect belongs to: the      *)
(* window loop and the byte loop of either build are Scanning.  Finalizing *)
(* is the step from the loop test of the window loop to the return, taken  *)
(* when the file is exhausted.                                             *)
Phase(p) ==
    IF p = "signature" THEN "SignatureCheck"
    ELSE IF p = "size" THEN "SizeCheck"
    ELSE IF p \in {"scan", "bytes", "degraded", "dbytes"} THEN "Scanning"
    ELSE IF p = "done" THEN "Done"
    ELSE "Init"

(* The phase that follows phase ph when nothing returns.                   *)
NextPhase(ph) ==
    IF ph = "Init" THEN "SignatureCheck"
    ELSE IF ph = "SignatureCheck" THEN "SizeCheck"
    ELSE IF ph = "SizeCheck" THEN "Scanning"
    ELSE "Done"

(* The labels of the five byte-order marks.                                *)
BomLabels == {"utf-8", "utf-32be", "utf-32le", "utf-16be", "utf-16le"}

(* C12: every step of a call stays in its phase, moves to the next phase   *)
(* of Init, SignatureCheck, SizeCheck, Scanning, Done (the step from       *)
(* Scanning to Done at the end of the file being Finalizing), or jumps to  *)
(* Done from SignatureCheck, SizeCheck or Scanning; no step goes back and  *)
(* Done is never left.  A call that has returned, on a file over SizeLimit *)
(* that opens with one of the five byte-order marks of the table, has      *)
(* returned from the signature check with the label of a byte-order mark,  *)
(* not binary, having read the header only.                                *)
C12_PhaseOrdering ==
    /\ [][\A c \in Calls :
            \/ Phase(pc'[c]) = Phase(pc[c])
            \/ Phase(pc'[c]) = NextPhase(Phase(pc[c]))
            \/ /\ Phase(pc'[c]) = "Done"
               /\ Phase(pc[c]) \in {"SignatureCheck", "SizeCheck", "Scanning"}]_vars
    /\ [](\A c \in Calls :
            (pc[c] = "done" /\ size[c] > SizeLimit
                /\ TableSignature(Header(c)) \in BomLabels)
            => /\ result[c] = Label(Signature(Header(c)))
               /\ result[c].label \in BomLabels
               /\ reads[c] = <<<<0, 4>>>>)

(* C12's case: a file over SizeLimit that opens with FE FF has returned.   *)
C12_Witness ==
    \E c \in Calls :
        /\ pc[c] = "done" /\ size[c] > SizeLimit
        /\ SubSeq(file[c], 1, 2) = <<254, 255>>
        /\ result[c] = Label("utf-16be")

(* The larger of two numbers.                                              *)
Max(a, b) == IF a > b THEN a ELSE b

(* C13: in the build without uchardet a call that is past the signature    *)
(* and size checks of a file of at most SizeLimit bytes reads one window   *)
(* and no more, at offset 0 and of length min(WindowSize, size); it never  *)
(* runs the validator (utf8_errors and utf8_cont_bytes stay 0, no handle   *)
(* is fed); no byte past the header and that window is ever read; and once *)
(* returned its label is binary if the control bytes of the window are     *)
(* more than length \div 8 and utf-8 otherwise.                            *)
C13_DegradedBuild ==
    \A c \in Calls :
        (~with_uchardet /\ NoSignatureReturn(c) /\ size[c] <= SizeLimit) =>
            /\ pc[c] \in {"size", "degraded", "dbytes", "done"}
            /\ utf8_errors[c] = 0 /\ utf8_cont_bytes[c] = 0
            /\ ud[c] = NewHandle
            /\ Len(file[c]) <= Max(FirstWindowLen(c), IF size[c] >= 4 THEN 4 ELSE 0)
            /\ pc[c] \in {"size", "degraded"} => ScanReads(c) = <<>>
            /\ pc[c] \in {"dbytes", "done"} =>
                   ScanReads(c) = <<<<0, FirstWindowLen(c)>>>>
            /\ pc[c] = "done" =>
                   result[c] =
                       IF ControlCount(SubSeq(file[c], 1, FirstWindowLen(c)))
                              > FirstWindowLen(c) \div 8
                       THEN Label("binary") ELSE Label("utf-8")

(* C13's case: the build without uchardet has returned utf-8 on a file     *)
(* longer than a window and than the header, whose first byte is a         *)
(* continuation byte that continues nothing.                               *)
C13_Witness ==
    \E c \in Calls :
        /\ ~with_uchardet /\ pc[c] = "done"
        /\ size[c] > Max(WindowSize, 4)
        /\ file[c][1] = 191
        /\ result[c] = Label("utf-8")

(* The other case of C13: that build has returned binary on such a file.   *)
C13_WitnessBinary ==
    \E c \in Calls :
        /\ ~with_uchardet /\ pc[c] = "done" /\ NoSignatureReturn(c)
        /\ size[c] = SizeLimit /\ Len(file[c]) < size[c]
        /\ result[c] = Label("binary")

(* The six labels Detect holds as literals.                                *)
FixedLabels == BomLabels \cup {"binary"}

(* A bound on the steps call c has left: 0 when it has returned, and at   *)
(* most three steps for each byte not yet covered by a window (the read,  *)
(* the byte, the ratio test) plus what is left of the window at hand.     *)
StepsLeft(c) ==
    IF pc[c] = "signature" THEN 3 * size[c] + 5
    ELSE IF pc[c] = "size" THEN 3 * size[c] + 4
    ELSE IF pc[c] = "scan" THEN 3 * (size[c] - offset[c]) + 1
    ELSE IF pc[c] = "bytes" THEN 3 * (size[c] - offset[c]) + (read[c] - i[c]) + 2
    ELSE IF pc[c] = "degraded" THEN Min(WindowSize, size[c]) + 2
    ELSE IF pc[c] = "dbytes" THEN (read[c] - i[c]) + 1
    ELSE 0

(* C14: every call reaches Done: a call that has started and not returned  *)
(* can always take a step, and every step lowers StepsLeft of the call     *)
(* that takes it, which is never below 0; each pass of the window loop     *)
(* reads at least one byte and moves offset up by what it read, never past *)
(* size; and the result of a call that has returned is one of the six      *)
(* fixed labels or, in the full build with utf8_errors >= 5 only, what     *)
(* uchardet says.                                                          *)
C14_Termination ==
    /\ [](\A c \in Calls :
            /\ StepsLeft(c) >= 0
            /\ pc[c] \notin {"idle", "done"} => ENABLED Next)
    /\ [][\E c \in Calls : StepsLeft(c)' < StepsLeft(c)]_vars
    /\ [][\A c \in Calls :
            (pc[c] = "scan" /\ pc'[c] = "bytes") =>
                /\ read'[c] >= 1
                /\ offset'[c] = offset[c] + read'[c]
                /\ offset'[c] <= size[c]]_vars
    /\ [](\A c \in Calls :
            pc[c] = "done" =>
                \/ result[c].label \in FixedLabels /\ result[c] = Label(result[c].label)
                \/ /\ with_uchardet /\ utf8_errors[c] >= 5
                   /\ result[c] = Guess(file[c]))

(* C14's case: the full build has returned on a file of SizeLimit bytes    *)
(* after reading every window of it.                                       *)
C14_Witness ==
    \E c \in Calls :
        /\ ScanRanOut(c) /\ size[c] = SizeLimit
        /\ Len(ScanReads(c)) = (SizeLimit + WindowSize - 1) \div WindowSize
        /\ result[c].label \in FixedLabels

(* The two calls were given the same unmodified file: the sizes are equal  *)
(* and the bytes both have read are the same.                              *)
SameSource ==
    /\ size[1] = size[2]
    /\ \A k \in 1..Min(Len(file[1]), Len(file[2])) : file[1][k] = file[2][k]

(* What call c holds: its control point and its locals.                    *)
CallState(c) ==
    <<pc[c], reads[c], buf[c], read[c], offset[c], i[c], binaryish[c],
      utf8_errors[c], utf8_cont_bytes[c], ud[c], result[c]>>

(* How far call c has come: the reads it has made, its control point and   *)
(* its place in the byte loop.                                             *)
Progress(c) == <<Len(reads[c]), pc[c], i[c]>>

(* C15: of two calls on the same unmodified file, whichever runs first and *)
(* however their steps interleave, the one that has come as far as the     *)
(* other holds the same state (control point, reads made, counters,        *)
(* validator state, handle and result) and has read the same bytes; in     *)
(* particular, when both have returned they have returned the same label.  *)
C15_Determinism ==
    SameSource =>
        /\ Progress(1) = Progress(2) =>
               (CallState(1) = CallState(2) /\ file[1] = file[2])
        /\ (pc[1] = "done" /\ pc[2] = "done") =>
               (result[1] = result[2] /\ reads[1] = reads[2])

(* C15's case: the first call has returned on a file of TwoSize bytes with *)
(* errors counted before the second has taken a step, and the second has   *)
(* then returned on the same bytes.                                        *)
C15_Witness ==
    /\ SameSource /\ size[1] = TwoSize /\ Len(file[1]) = TwoSize
    /\ with_uchardet /\ pc[1] = "done" /\ pc[2] = "done"
    /\ utf8_errors[1] > 0 /\ file[1] = file[2]

(* charset.cpp:56-105 as a function: the verdict of the window loop of    *)
(* the full build on a file of sz bytes of which f is known, entered at    *)
(* offset off with bin control bytes counted and validator state st.  The  *)
(* verdict of a window whose bytes are not all known is no result.         *)
RECURSIVE ScanFrom(_, _, _, _, _)
ScanFrom(f, sz, off, bin, st) ==
    IF ~(off < sz)
    THEN LET errors == IF st.cont # 0 THEN st.errors + 1 ELSE st.errors
         IN IF FewErrors(errors) THEN Label("utf-8") ELSE Guess(f)
    ELSE LET n == Min(WindowSize, sz - off) IN
         IF Len(f) < off + n THEN NoResult
         ELSE LET w == SubSeq(f, off + 1, off + n)
                  bin2 == bin + Cardinality({k \in 1..n : IsBinaryish(w[k])})
              IN IF bin2 > (off + n) \div 8 THEN Label("binary")
                 ELSE ScanFrom(f, sz, off + n, bin2, Utf8Scan(st.cont, st.errors, w))

(* charset.cpp:25-118 as a function: what one call of Detect, run with     *)
(* nothing beside it, returns on a file of sz bytes of which f is known,   *)
(* in the full build or not.                                               *)
DetectAlone(f, sz, full) ==
    IF sz >= 4 /\ Len(f) < 4 THEN NoResult
    ELSE IF sz >= 4 /\ Signature(SubSeq(f, 1, 4)) # ""
    THEN Label(Signature(SubSeq(f, 1, 4)))
    ELSE IF OverCap(sz) THEN Label("binary")
    ELSE IF full THEN ScanFrom(f, sz, 0, 0, [cont |-> 0, errors |-> 0])
    ELSE LET n == Min(WindowSize, sz) IN
         IF Len(f) < n THEN NoResult
         ELSE IF Cardinality({k \in 1..n : IsBinaryish(f[k])}) > n \div 8
         THEN Label("binary") ELSE Label("utf-8")

(* A call run with nothing beside it returns what DetectAlone says.        *)
AloneReturnsDetectAlone ==
    (pc[1] = "done" /\ pc[2] = "idle") =>
        result[1] = DetectAlone(file[1], size[1], with_uchardet)

(* C16: of two calls on files of their own whose steps interleave in every *)
(* way, each step changes the state of one call and leaves the state and   *)
(* the file of the other as they were, and each call that has returned has *)
(* returned what a call run alone returns on its file.                     *)
C16_Reentrancy ==
    /\ [][\E c \in Calls :
            \A d \in Calls \ {c} :
                CallState(d)' = CallState(d) /\ file'[d] = file[d]]_vars
    /\ [](\A c \in Calls :
            pc[c] = "done" =>
                result[c] = DetectAlone(file[c], size[c], with_uchardet))

(* C16's case: both calls are in the middle of their byte loops at once,   *)
(* on different files, with different counts.                              *)
C16_Witness ==
    /\ with_uchardet /\ pc[1] = "bytes" /\ pc[2] = "bytes"
    /\ i[1] > 0 /\ i[2] > 0
    /\ file[1] # file[2] /\ utf8_errors[1] # utf8_errors[2]
    /\ binaryish[1] # binaryish[2]

(* The end of such runs: both calls have returned, with different labels   *)
(* on different files of TwoSize bytes.                                    *)
C16_WitnessReturned ==
    /\ with_uchardet /\ pc[1] = "done" /\ pc[2] = "done"
    /\ size[1] = TwoSize /\ size[2] = TwoSize
    /\ result[1] = Label("binary") /\ result[2] = Label("utf-8")
    /\ utf8_errors[2] > 0

(* C17: a call whose mapping fails to open, or one of whose reads fails,   *)
(* ends in failure at that very step, from wherever it is (before the      *)
(* header, at the header, at any window of either build); a failed call    *)
(* holds no label, has not asked uchardet for one, and never takes another *)
(* step: it reads nothing more and returns nothing later.                  *)
C17_IoFailure ==
    /\ [](\A c \in Calls :
            pc[c] = "failed" => (result[c] = NoResult /\ ~ud[c].ended))
    /\ [][\A c \in Calls :
            /\ (pc[c] = "open" \/ AtRead(c)) => ENABLED Throw(c)
            /\ pc[c] = "failed" =>
                   (CallState(c)' = CallState(c) /\ file'[c] = file[c])
            /\ (pc[c] # "failed" /\ pc'[c] = "failed") =>
                   /\ pc[c] = "open" \/ AtRead(c)
                   /\ reads'[c] = reads[c] /\ file'[c] = file[c]]_vars

(* C17's case: the read of a window past the first has failed, after       *)
(* errors were counted.                                                    *)
C17_Witness ==
    \E c \in Calls :
        /\ pc[c] = "failed" /\ with_uchardet
        /\ offset[c] > 0 /\ offset[c] < size[c] /\ utf8_errors[c] > 0
        /\ result[c] = NoResult

(* L of section 4.4: the number of leading 1 bits of b, by the ranges of   *)
(* byte values; 5 stands for every count above 4.                          *)
LeadingOnes(b) ==
    IF b < 128 THEN 0
    ELSE IF b < 192 THEN 1
    ELSE IF b < 224 THEN 2
    ELSE IF b < 240 THEN 3
    ELSE IF b < 248 THEN 4
    ELSE 5

(* The rows of the table of section 4.4 for pending_continuation = 0.      *)
TableIdle(e, L) ==
    IF L = 0 THEN [cont |-> 0, errors |-> e]
    ELSE IF L = 1 THEN [cont |-> 0, errors |-> e + 1]
    ELSE IF L <= 4 THEN [cont |-> L - 1, errors |-> e]
    ELSE [cont |-> 0, errors |-> e + 1]

(* The table of section 4.4: C > 0 and L = 1 consumes a continuation byte; *)
(* C > 0 and L # 1 is one error, a reset, and then the same byte as for    *)
(* C = 0.                                                                  *)
TableStep(C, e, b) ==
    IF C > 0 /\ LeadingOnes(b) = 1 THEN [cont |-> C - 1, errors |-> e]
    ELSE IF C > 0 THEN TableIdle(e + 1, LeadingOnes(b))
    ELSE TableIdle(e, LeadingOnes(b))

(* C18: every pass of the byte loop takes (utf8_cont_bytes, utf8_errors)   *)
(* to what the table gives for the byte it reads; a byte F8..FF read while *)
(* a sequence is open adds two errors and leaves none open, and a lead     *)
(* byte (C0..F7) read while a sequence is open adds one error and opens a  *)
(* sequence of its own.                                                    *)
C18_TransitionTable ==
    [][\A c \in Calls :
          (pc[c] = "bytes" /\ i'[c] = i[c] + 1) =>
              LET b == file'[c][buf[c] + i[c] + 1]
                  C == utf8_cont_bytes[c]
              IN /\ [cont |-> utf8_cont_bytes'[c], errors |-> utf8_errors'[c]]
                        = TableStep(C, utf8_errors[c], b)
                 /\ (C > 0 /\ b >= 248) =>
                        /\ utf8_errors'[c] = utf8_errors[c] + 2
                        /\ utf8_cont_bytes'[c] = 0
                 /\ (C > 0 /\ b >= 192 /\ b < 248) =>
                        /\ utf8_errors'[c] = utf8_errors[c] + 1
                        /\ utf8_cont_bytes'[c] = LeadingOnes(b) - 1]_vars

(* C18's case: the byte loop has read E2 and then FF: two errors, no       *)
(* sequence open.                                                          *)
C18_Witness ==
    \E c \in Calls :
        /\ pc[c] = "bytes" /\ i[c] = 2 /\ file[c] = <<226, 255>>
        /\ utf8_errors[c] = 2 /\ utf8_cont_bytes[c] = 0

(* The other case of C18: the byte loop has read F0 and then E2: one       *)
(* error, two continuation bytes due.                                      *)
C18_WitnessLead ==
    \E c \in Calls :
        /\ pc[c] = "bytes" /\ i[c] = 2 /\ file[c] = <<240, 226>>
        /\ utf8_errors[c] = 1 /\ utf8_cont_bytes[c] = 2

(* C19: in the full build every window read has a length of 1 to           *)
(* WindowSize and ends within the file; the first is at offset 0 and each  *)
(* other starts where the one before it ended, so the offsets go strictly  *)
(* up; offset is where the last one ended; and when the scan has run out   *)
(* the windows are ceil(size / WindowSize) in number and end at size: they *)
(* cover every byte once.                                                  *)
C19_WindowReads ==
    \A c \in Calls :
        with_uchardet =>
            LET w == ScanReads(c) IN
            /\ \A k \in 1..Len(w) :
                   /\ w[k][2] \in 1..WindowSize
                   /\ w[k][1] + w[k][2] <= size[c]
                   /\ w[k][1] = (IF k = 1 THEN 0 ELSE w[k - 1][1] + w[k - 1][2])
            /\ Len(w) > 0 => offset[c] = w[Len(w)][1] + w[Len(w)][2]
            /\ ScanRanOut(c) =>
                   /\ Len(w) = (size[c] + WindowSize - 1) \div WindowSize
                   /\ Len(w) > 0 => w[Len(w)][1] + w[Len(w)][2] = size[c]
                   /\ ud[c].fed = w

(* C19's case: the scan has run out over a file of two full windows and    *)
(* one byte, in three reads.                                               *)
C19_Witness ==
    \E c \in Calls :
        /\ ScanRanOut(c) /\ size[c] = 2 * WindowSize + 1
        /\ ScanReads(c) = << <<0, WindowSize>>, <<WindowSize, WindowSize>>,
                             <<2 * WindowSize, 1>> >>

(* C20: in the full build the byte loop of a window is left only when the  *)
(* whole window has been gone through, and the step that leaves it returns *)
(* binary when binaryish > offset \div 8, on the counts of all the windows *)
(* so far, reading nothing more and leaving the handle of uchardet as it   *)
(* is, and goes back to the window loop otherwise; the step that leaves    *)
(* the window loop at the end of the file never returns binary.  So the    *)
(* window loop is only ever at a point where the ratio test has passed,    *)
(* and a call that has come out of its scan has returned binary if and     *)
(* only if binaryish > offset \div 8 at the end of its last window,        *)
(* whatever utf8_errors is and also when that window is the last of the    *)
(* file; uchardet is then never asked for its label.                       *)
C20_BinaryRatioPrecedence ==
    /\ [][\A c \in Calls :
            /\ (pc[c] = "bytes" /\ pc'[c] # "bytes") =>
                   /\ i[c] = read[c]
                   /\ IF binaryish[c] > offset[c] \div 8
                      THEN /\ pc'[c] = "done" /\ result'[c] = Label("binary")
                           /\ reads'[c] = reads[c] /\ ud'[c] = ud[c]
                      ELSE /\ pc'[c] = "scan" /\ result'[c] = result[c]
            /\ (pc[c] = "scan" /\ pc'[c] = "done") =>
                   result'[c] # Label("binary")]_vars
    /\ [](\A c \in Calls :
            with_uchardet =>
                /\ pc[c] = "scan" => ~(binaryish[c] > offset[c] \div 8)
                /\ (pc[c] = "done" /\ NoSignatureReturn(c) /\ size[c] <= SizeLimit) =>
                       /\ result[c] = Label("binary")
                              <=> binaryish[c] > offset[c] \div 8
                       /\ result[c] = Label("binary") => ~ud[c].ended)

(* C20's case: the ratio test has returned binary at the end of the last   *)
(* window of a file of several windows, with 5 errors or more counted and  *)
(* uchardet not asked.                                                     *)
C20_Witness ==
    \E c \in Calls :
        /\ with_uchardet /\ pc[c] = "done" /\ NoSignatureReturn(c)
        /\ result[c] = Label("binary") /\ ~ud[c].ended
        /\ offset[c] = size[c] /\ Len(ScanReads(c)) >= 2
        /\ utf8_errors[c] >= 5

(* The other case of C20: binary at the end of a window that is not the    *)
(* last, with the rest of the file unread.                                 *)
C20_WitnessEarly ==
    \E c \in Calls :
        /\ with_uchardet /\ pc[c] = "done" /\ NoSignatureReturn(c)
        /\ result[c] = Label("binary")
        /\ Len(ScanReads(c)) = 2 /\ offset[c] < size[c]

(* The label in result is one that uchardet gave.                          *)
FromUchardet(r) == r.label = "uchardet_get_charset"

(* C21: in the full build the windows fed to uchardet are, at every point, *)
(* the windows read so far, each once and in the order of the reads, so a  *)
(* window is fed before its bytes are gone through and its ratio test      *)
(* made; the step that ends the data (the only one: an ended handle never  *)
(* changes again) is taken at the end of the file with every window fed,   *)
(* with utf8_errors at 5 or more, and is the step that returns uchardet's  *)
(* label for the bytes fed; a result is uchardet's only if the data was    *)
(* ended; and a call that has returned utf-8 or binary, or with            *)
(* utf8_errors below 5, has neither ended the data nor asked for a label.  *)
(* In the build without uchardet the handle is never touched.              *)
C21_FallbackProtocol ==
    /\ [](\A c \in Calls :
            /\ with_uchardet => ud[c].fed = ScanReads(c)
            /\ ~with_uchardet => ud[c] = NewHandle
            /\ FromUchardet(result[c]) <=> ud[c].ended
            /\ (pc[c] = "done" /\ (utf8_errors[c] < 5
                                      \/ result[c] \in {Label("binary"), Label("utf-8")}))
                   => (~ud[c].ended /\ ~FromUchardet(result[c])))
    /\ [][\A c \in Calls :
            /\ ud[c].ended => ud'[c] = ud[c]
            /\ (~ud[c].ended /\ ud'[c].ended) =>
                   /\ pc[c] = "scan" /\ pc'[c] = "done" /\ offset[c] = size[c]
                   /\ ud'[c].fed = ud[c].fed
                   /\ Len(FedBytes(file[c], ud[c].fed)) = size[c]
                   /\ utf8_errors'[c] >= 5
                   /\ result'[c] = Guess(FedBytes(file[c], ud[c].fed))
            /\ ud'[c].fed # ud[c].fed =>
                   /\ pc[c] = "scan" /\ pc'[c] = "bytes"
                   /\ ud'[c].fed = Append(ud[c].fed, <<offset[c], read'[c]>>)
                   /\ reads'[c] = Append(reads[c], <<offset[c], read'[c]>>)]_vars

(* C21's case: the data was ended after several windows were fed, and the  *)
(* label is what uchardet says of all the bytes of the file.               *)
C21_Witness ==
    \E c \in Calls :
        /\ pc[c] = "done" /\ with_uchardet /\ ud[c].ended
        /\ Len(ud[c].fed) >= 2 /\ Len(file[c]) = size[c]
        /\ utf8_errors[c] >= 5
        /\ result[c] = Guess(file[c])

(* The other case of C21: a call has returned utf-8 with errors counted,   *)
(* every window fed and the data not ended.                                *)
C21_WitnessNotEnded ==
    \E c \in Calls :
        /\ pc[c] = "done" /\ with_uchardet /\ ~ud[c].ended
        /\ Len(ud[c].fed) >= 2 /\ utf8_errors[c] \in 1..4
        /\ result[c] = Label("utf-8")

(* The labels of the four 16- and 32-bit byte-order marks.                 *)
WideLabels == {"utf-16le", "utf-16be", "utf-32le", "utf-32be"}

(* C22: a call on a file of fewer than 4 bytes passes the signature check  *)
(* without reading anything (at the size check it has made no read and     *)
(* knows no byte), its reads are only ever windows of the scan, and it     *)
(* never holds one of the labels utf-16le, utf-16be, utf-32le, utf-32be;   *)
(* once returned in either build it has read the whole file as one window  *)
(* and its label is that of the scan: binary if the file has a control     *)
(* byte, else utf-8 or, with 5 errors or more, what uchardet says.  On the *)
(* 2-byte file FE FF and on the 3-byte file FF FE 41 it has returned       *)
(* utf-8.                                                                  *)
C22_ShortSkipsSignature ==
    \A c \in Calls :
        (size[c] < 4 /\ pc[c] \notin {"idle", "signature"}) =>
            /\ pc[c] = "size" => (reads[c] = <<>> /\ file[c] = <<>>)
            /\ \A k \in 1..Len(reads[c]) :
                   reads[c][k] = <<0, Min(WindowSize, size[c])>>
            /\ Len(reads[c]) <= 1
            /\ result[c].label \notin WideLabels
            /\ pc[c] = "done" =>
                   /\ Len(file[c]) = Min(WindowSize, size[c])
                   /\ result[c] =
                          IF ControlCount(file[c]) > Len(file[c]) \div 8
                          THEN Label("binary")
                          ELSE IF with_uchardet /\ Len(file[c]) = size[c]
                                  /\ OnePassErrors(file[c]) >= 5
                          THEN Guess(file[c])
                          ELSE Label("utf-8")
                   /\ file[c] \in {<<254, 255>>, <<255, 254, 65>>} =>
                          result[c] = Label("utf-8")

(* C22's case: the full build has returned on the 2-byte file FE FF.       *)
C22_Witness ==
    \E c \in Calls :
        /\ pc[c] = "done" /\ with_uchardet
        /\ size[c] = 2 /\ file[c] = <<254, 255>>
        /\ reads[c] = <<<<0, 2>>>>

(* The other example of C22: a call has returned on the 3-byte file        *)
(* FF FE 41.                                                               *)
C22_WitnessUtf16le ==
    \E c \in Calls :
        pc[c] = "done" /\ size[c] = 3 /\ file[c] = <<255, 254, 65>>

(* The bytes the scan of call c has gone through.                          *)
Processed(c) == IF pc[c] = "bytes" THEN buf[c] + i[c] ELSE offset[c]

(* C23: at every point of the scan of the full build utf8_errors, plus one *)
(* if a sequence is open, is at most the number of bytes gone through; in  *)
(* a call that has returned utf8_errors, the error for the end of the file *)
(* included, is at most the size of the file; and a call that has returned *)
(* on a file of fewer than 5 bytes holds a label that is not uchardet's:   *)
(* one of the signatures, binary or utf-8.                                 *)
C23_ErrorBudget ==
    \A c \in Calls :
        /\ (with_uchardet /\ pc[c] \in {"scan", "bytes"}) =>
               utf8_errors[c] + (IF utf8_cont_bytes[c] > 0 THEN 1 ELSE 0)
                   <= Processed(c)
        /\ pc[c] = "done" =>
               /\ utf8_errors[c] <= size[c]
               /\ size[c] < 5 =>
                      /\ ~FromUchardet(result[c]) /\ ~ud[c].ended
                      /\ result[c].label \in FixedLabels

(* C23's case: the full build has returned utf-8 on a file of 4 bytes with *)
(* 4 errors counted, as many as the file has bytes.                        *)
C23_Witness ==
    \E c \in Calls :
        /\ ScanRanOut(c) /\ size[c] = 4 /\ utf8_errors[c] = 4
        /\ result[c] = Label("utf-8")

(* The other case of C23: in the byte loop, with a sequence open, the      *)
(* count is as high as it can be.                                          *)
C23_WitnessTight ==
    \E c \in Calls :
        /\ with_uchardet /\ pc[c] = "bytes" /\ utf8_cont_bytes[c] > 0
        /\ utf8_errors[c] + 1 = Processed(c) /\ utf8_errors[c] >= 2

(* What the other build returns on the file of call c.                    *)
OtherBuild(c) == DetectAlone(file[c], size[c], ~with_uchardet)

(* The final utf8_errors of the full build on the file of call c, which    *)
(* the call has read to its end: that of the call itself in the full       *)
(* build, that of one pass over the file otherwise.                        *)
FullBuildErrors(c) ==
    IF with_uchardet THEN utf8_errors[c] ELSE OnePassErrors(file[c])

(* C24: a call that has returned on a file of at most WindowSize bytes has *)
(* returned binary exactly when the other build returns binary on that     *)
(* file, and has returned the very label of the other build whenever the   *)
(* signature check returned or the full build ends with utf8_errors below  *)
(* 5: the builds differ on files longer than a window or with 5 errors or  *)
(* more only.                                                              *)
C24_BuildAgreement ==
    \A c \in Calls :
        (pc[c] = "done" /\ size[c] <= WindowSize) =>
            /\ result[c] = Label("binary") <=> OtherBuild(c) = Label("binary")
            /\ (~NoSignatureReturn(c) \/ FullBuildErrors(c) < 5) =>
                   result[c] = OtherBuild(c)

(* C24's case: the build without uchardet has returned utf-8 on a file of  *)
(* one full window with errors in it, as the full build does.              *)
C24_Witness ==
    \E c \in Calls :
        /\ pc[c] = "done" /\ ~with_uchardet /\ size[c] = WindowSize
        /\ Len(file[c]) = size[c] /\ OnePassErrors(file[c]) >= 2
        /\ result[c] = Label("utf-8")
        /\ OtherBuild(c) = Label("utf-8")

(* Another case of C24: both builds return binary on a file of one window. *)
C24_WitnessBinary ==
    \E c \in Calls :
        /\ pc[c] = "done" /\ with_uchardet /\ size[c] = WindowSize
        /\ NoSignatureReturn(c)
        /\ result[c] = Label("binary") /\ OtherBuild(c) = Label("binary")

(* Past the window the builds do differ: the full build has returned       *)
(* binary at its second window on a file on which the other build returns  *)
(* utf-8.                                                                  *)
C24_WitnessLonger ==
    \E c \in Calls :
        /\ pc[c] = "done" /\ with_uchardet /\ size[c] > WindowSize
        /\ result[c] = Label("binary") /\ OtherBuild(c) = Label("utf-8")

(* C25: a call on a file of 0 bytes reads no byte and counts nothing; in   *)
(* the full build it makes no read at all, never enters the byte loop or   *)
(* the ratio test after it, and leaves the handle of uchardet unfed and    *)
(* not ended; in the build without uchardet its one read is of length 0    *)
(* and its test is 0 > 0; in both builds it returns utf-8.                 *)
C25_EmptySource ==
    \A c \in Calls :
        (size[c] = 0 /\ pc[c] \notin {"idle", "signature"}) =>
            /\ file[c] = <<>>
            /\ binaryish[c] = 0 /\ utf8_errors[c] = 0 /\ utf8_cont_bytes[c] = 0
            /\ ud[c] = NewHandle
            /\ with_uchardet => (reads[c] = <<>> /\ pc[c] \in {"size", "scan", "done"})
            /\ ~with_uchardet =>
                   /\ reads[c] \in {<<>>, <<<<0, 0>>>>}
                   /\ pc[c] \in {"size", "degraded", "dbytes", "done"}
                   /\ pc[c] = "dbytes" => ~(binaryish[c] > read[c] \div 8)
            /\ pc[c] = "done" => result[c] = Label("utf-8")

(* C25's case: the full build has returned on a file of 0 bytes.           *)
C25_Witness ==
    \E c \in Calls :
        /\ pc[c] = "done" /\ with_uchardet /\ size[c] = 0
        /\ reads[c] = <<>> /\ result[c] = Label("utf-8")

(* The other case of C25: the build without uchardet has returned on a     *)
(* file of 0 bytes.                                                        *)
C25_WitnessDegraded ==
    \E c \in Calls :
        /\ pc[c] = "done" /\ ~with_uchardet /\ size[c] = 0
        /\ reads[c] = <<<<0, 0>>>> /\ result[c] = Label("utf-8")

====
